---- MODULE Spec2Model ----
(***************************************************************************)
(* A model of crop's metric-summarized B-tree (src/tree/tree.rs), of the   *)
(* Rope facade built on it (src/rope/rope.rs) and of the text metrics      *)
(* (src/rope/metrics.rs).                                                  *)
(*                                                                         *)
(* Nodes live in a heap: a sequence of node records indexed by handle.  A  *)
(* handle is what an Arc<Node> is in the source; two trees that hold the   *)
(* same handle share the node.  A node owned by another live tree has a    *)
(* strong count above 1: Arc::get_mut on it panics, Arc::make_mut copies   *)
(* it.                                                                     *)
(***************************************************************************)
EXTENDS Integers, Sequences, FiniteSets, TLC

\* ------------------------------------------------------------------ bounds

\* Largest FANOUT explored (the test build uses 2, see ROPE_FANOUT).
MaxFanout == 3
\* Largest number of leaves handed to Tree::from_leaves.
MaxLeaves == 10
\* Capacity of a text chunk in bytes (TextChunk::max_bytes()).
MaxBytes == 4
\* Longest chunk handed to the metrics.
MaxChunkLen == 5

\* The byte '\n'.
NL == 10

VARIABLES
    pc,         \* "init" | "built" | "sliced" | "done" | "panicked" | "undefined"
    fanout,     \* the FANOUT const parameter of Tree
    leaves,     \* the input: the leaves (chunks) handed to the constructor
    heap,       \* the nodes, indexed by handle (Arc)
    tree,       \* Tree.root of the source tree: a handle
    kind,       \* how the source was built: "none" | "tree" | "new" | "str" | "string"
    rope_lbn,   \* Rope.last_byte_is_newline of the source rope
    range,      \* the byte range of the slice taken: <<start, end>>
    slice,      \* the TreeSlice
    res,        \* Tree.root of the tree materialized from the slice
    res_lbn,    \* Rope.last_byte_is_newline of the materialized rope
    aux,        \* what the last operation reported besides its result
    chunk,      \* the chunk (GapSlice) handed to a metric
    op,         \* the metric operation applied to the chunk
    arg,        \* the offset the operation was given, 0 if it takes none
    out         \* what the metric operation returned

vars ==
    <<pc, fanout, leaves, heap, tree, kind, rope_lbn, range, slice, res, res_lbn, aux,
      chunk, op, arg, out>>

\* The variables of the metrics, which the tree operations leave alone, and
\* the variables of the trees, which the metrics leave alone.
metricVars == <<chunk, op, arg, out>>
treeVars == <<pc, fanout, leaves, heap, tree, kind, rope_lbn, range, slice, res, res_lbn, aux>>

\* ------------------------------------------------------------ sequences

Min(a, b) == IF a <= b THEN a ELSE b

\* s[from..to), 0-based as Rust's ranges.
Sub(s, from, to) == SubSeq(s, from + 1, to)

RECURSIVE Flatten(_)
Flatten(ss) == IF ss = <<>> THEN <<>> ELSE Head(ss) \o Flatten(Tail(ss))

\* ------------------------------------------------------------- summaries

\* ChunkSummary::empty()
EmptySummary == [bytes |-> 0, line_breaks |-> 0]

\* impl Add / AddAssign for ChunkSummary
SumAdd(a, b) == [bytes |-> a.bytes + b.bytes, line_breaks |-> a.line_breaks + b.line_breaks]

\* impl Sub / SubAssign for ChunkSummary
SumSub(a, b) == [bytes |-> a.bytes - b.bytes, line_breaks |-> a.line_breaks - b.line_breaks]

\* Summarize::summarize of a chunk: its byte count and its number of '\n'.
Summarize(v) ==
    [bytes |-> Len(v), line_breaks |-> Cardinality({i \in 1..Len(v) : v[i] = NL})]

\* ByteMetric: Metric::measure
ByteMeasure(summary) == summary.bytes

\* ----------------------------------------------------------------- leaves

\* Min-fill of a chunk.
MinBytes == MaxBytes \div 2

\* Lnode::new(value, summary): the caller's summary is taken as it is.
LnodeNew(value, summary) ==
    [leaf |-> TRUE, value |-> value, summary |-> summary, children |-> <<>>]

\* Lnode::from(value): the summary is computed.
LnodeFrom(value) == LnodeNew(value, Summarize(value))

\* Lnode::is_big_enough
IsBigEnough(lnode) == Len(lnode.value) >= MinBytes

\* Leaf::balance_slices: one leaf when both fit in a chunk, else bytes move
\* over the boundary until both sides reach the min-fill.
BalanceSlices(a, b) ==
    IF Len(a) + Len(b) <= MaxBytes
    THEN [first |-> a \o b, has_second |-> FALSE, second |-> <<>>]
    ELSE IF Len(a) < MinBytes
    THEN LET k == MinBytes - Len(a)
         IN  [first |-> a \o Sub(b, 0, k), has_second |-> TRUE,
              second |-> Sub(b, k, Len(b))]
    ELSE IF Len(b) < MinBytes
    THEN LET k == MinBytes - Len(b)
         IN  [first |-> Sub(a, 0, Len(a) - k), has_second |-> TRUE,
              second |-> Sub(a, Len(a) - k, Len(a)) \o b]
    ELSE [first |-> a, has_second |-> TRUE, second |-> b]

\* ------------------------------------------------------------------ heap

\* The machine an operation runs on: the heap, the handles other live trees
\* own (their strong count is above 1), whether a panic happened and whether
\* the operation ran into undefined behaviour.
Machine(h, live) == [heap |-> h, live |-> live, panic |-> FALSE, ub |-> FALSE]

\* Arc::new(node): the new handle is the heap's new length.
Alloc(m, node) == [m EXCEPT !.heap = Append(@, node)]
NextId(m) == Len(m.heap) + 1

\* Arc::get_mut(id).unwrap() followed by a write: panics when the node is
\* shared.
Store(m, id, node) ==
    [m EXCEPT !.heap[id] = node, !.panic = @ \/ (id \in m.live)]

\* Arc::make_mut(id) followed by a write: a shared node is copied first and
\* the copy written; MadeMut is the handle written to.
MakeMutStore(m, id, node) ==
    IF id \in m.live THEN Alloc(m, node) ELSE [m EXCEPT !.heap[id] = node]
MadeMut(m, id) == IF id \in m.live THEN NextId(m) ELSE id

\* The handles reachable from a root, the root included.
RECURSIVE Reach(_, _)
Reach(h, id) ==
    {id} \cup UNION {Reach(h, h[id].children[i]) : i \in 1..Len(h[id].children)}

\* The leaves below a node from left to right (Tree::leaves).
RECURSIVE LeafValues(_, _)
LeafValues(h, id) ==
    IF h[id].leaf THEN <<h[id].value>>
    ELSE Flatten([i \in 1..Len(h[id].children) |-> LeafValues(h, h[id].children[i])])

\* The text below a node.
Content(h, id) == Flatten(LeafValues(h, id))

\* ---------------------------------------------------------------- inodes

\* Inode::min_children: ceil(FANOUT / 2)
MinChildren(F) == (F + 1) \div 2

\* Inode::empty()
InodeEmpty ==
    [leaf |-> FALSE, value |-> <<>>, summary |-> EmptySummary, children |-> <<>>]

\* Inode::push(child): appends and adds the child's summary to the cache.
InodePush(h, inode, id) ==
    [inode EXCEPT !.children = Append(@, id),
                  !.summary = SumAdd(@, h[id].summary)]

\* Pushing each handle of a list.
RECURSIVE InodePushAll(_, _, _)
InodePushAll(h, inode, ids) ==
    IF ids = <<>> THEN inode
    ELSE InodePushAll(h, InodePush(h, inode, Head(ids)), Tail(ids))

\* Inode::from_children(children)
InodeFromChildren(h, ids) == InodePushAll(h, InodeEmpty, ids)

\* Inode::has_enough_children
HasEnoughChildren(F, inode) == Len(inode.children) >= MinChildren(F)

\* Node::is_valid
IsValid(F, node) == IF node.leaf THEN IsBigEnough(node) ELSE HasEnoughChildren(F, node)

\* The sum of the cached summaries of some nodes.
RECURSIVE SumOf(_, _)
SumOf(h, ids) ==
    IF ids = <<>> THEN EmptySummary ELSE SumAdd(h[Head(ids)].summary, SumOf(h, Tail(ids)))

\* balance_first_child_with_second, both children leaves: the two values go
\* through balance_slices; the first child is written in place (Arc::get_mut),
\* the second is written through Arc::make_mut or removed.
BalanceFirstLeaf(m, inode, bal) ==
    LET f == inode.children[1]
        s == inode.children[2]
        rest == SubSeq(inode.children, 3, Len(inode.children))
    IN  IF bal.has_second
        THEN [m |-> MakeMutStore(Store(m, f, LnodeFrom(bal.first)), s, LnodeFrom(bal.second)),
              inode |-> [inode EXCEPT !.children = <<f, MadeMut(m, s)>> \o rest]]
        ELSE [m |-> Store(m, f, LnodeFrom(bal.first)),
              inode |-> [inode EXCEPT !.children = <<f>> \o rest]]

\* balance_first_child_with_second, both children inodes: the second child's
\* children all move to the first when they fit in one inode, and otherwise
\* as many as the first lacks.
BalanceFirstInode(F, m, inode, fn, sn) ==
    LET f == inode.children[1]
        s == inode.children[2]
        rest == SubSeq(inode.children, 3, Len(inode.children))
        k == MinChildren(F) - Len(fn.children)
        moved == SubSeq(sn.children, 1, k)
    IN  IF Len(fn.children) + Len(sn.children) <= F
        THEN [m |-> Store(m, f, [fn EXCEPT !.children = @ \o sn.children,
                                           !.summary = SumAdd(@, sn.summary)]),
              inode |-> [inode EXCEPT !.children = <<f>> \o rest]]
        ELSE [m |-> MakeMutStore(
                        Store(m, f, [fn EXCEPT !.children = @ \o moved,
                                               !.summary = SumAdd(@, SumOf(m.heap, moved))]),
                        s,
                        [sn EXCEPT !.children = SubSeq(@, k + 1, Len(@)),
                                   !.summary = SumSub(@, SumOf(m.heap, moved))]),
              inode |-> [inode EXCEPT !.children = <<f, MadeMut(m, s)>> \o rest]]

\* Inode::balance_first_child_with_second: an under-filled first child is
\* merged with the second child or takes from it what it lacks.
BalanceFirstChildWithSecond(F, m, inode) ==
    IF Len(inode.children) < 2 \/ IsValid(F, m.heap[inode.children[1]])
    THEN [m |-> m, inode |-> inode]
    ELSE IF m.heap[inode.children[1]].leaf
    THEN BalanceFirstLeaf(m, inode, BalanceSlices(m.heap[inode.children[1]].value,
                                                  m.heap[inode.children[2]].value))
    ELSE BalanceFirstInode(F, m, inode, m.heap[inode.children[1]], m.heap[inode.children[2]])

\* balance_last_child_with_penultimate, both children leaves.
BalanceLastLeaf(m, inode, bal) ==
    LET n == Len(inode.children)
        p == inode.children[n - 1]
        l == inode.children[n]
        rest == SubSeq(inode.children, 1, n - 2)
    IN  IF bal.has_second
        THEN [m |-> MakeMutStore(Store(m, l, LnodeFrom(bal.second)), p, LnodeFrom(bal.first)),
              inode |-> [inode EXCEPT !.children = rest \o <<MadeMut(m, p), l>>]]
        ELSE [m |-> Store(m, l, LnodeFrom(bal.first)),
              inode |-> [inode EXCEPT !.children = rest \o <<l>>]]

\* balance_last_child_with_penultimate, both children inodes.
BalanceLastInode(F, m, inode, pn, ln) ==
    LET n == Len(inode.children)
        p == inode.children[n - 1]
        l == inode.children[n]
        rest == SubSeq(inode.children, 1, n - 2)
        k == MinChildren(F) - Len(ln.children)
        np == Len(pn.children)
        moved == SubSeq(pn.children, np - k + 1, np)
    IN  IF Len(pn.children) + Len(ln.children) <= F
        THEN [m |-> Store(m, l, [ln EXCEPT !.children = pn.children \o @,
                                           !.summary = SumAdd(pn.summary, @)]),
              inode |-> [inode EXCEPT !.children = rest \o <<l>>]]
        ELSE [m |-> MakeMutStore(
                        Store(m, l, [ln EXCEPT !.children = moved \o @,
                                               !.summary = SumAdd(SumOf(m.heap, moved), @)]),
                        p,
                        [pn EXCEPT !.children = SubSeq(@, 1, np - k),
                                   !.summary = SumSub(@, SumOf(m.heap, moved))]),
              inode |-> [inode EXCEPT !.children = rest \o <<MadeMut(m, p), l>>]]

\* Inode::balance_last_child_with_penultimate: the mirror image.
BalanceLastChildWithPenultimate(F, m, inode) ==
    IF Len(inode.children) < 2
       \/ IsValid(F, m.heap[inode.children[Len(inode.children)]])
    THEN [m |-> m, inode |-> inode]
    ELSE IF m.heap[inode.children[Len(inode.children)]].leaf
    THEN BalanceLastLeaf(m, inode,
                         BalanceSlices(m.heap[inode.children[Len(inode.children) - 1]].value,
                                       m.heap[inode.children[Len(inode.children)]].value))
    ELSE BalanceLastInode(F, m, inode, m.heap[inode.children[Len(inode.children) - 1]],
                          m.heap[inode.children[Len(inode.children)]])

\* Inode::balance_left_side: balances the first child with the second, then
\* goes down into the first child (Arc::get_mut) and balances its left side;
\* a first child left under-filled by that is balanced once more.
RECURSIVE BalanceLeftSide(_, _, _)
BalanceLeftUp(F, inode, down) ==
    BalanceFirstChildWithSecond(F, Store(down.m, inode.children[1], down.inode), inode)

BalanceLeftDown(F, b) ==
    IF b.m.heap[b.inode.children[1]].leaf THEN b
    ELSE BalanceLeftUp(F, b.inode, BalanceLeftSide(F, b.m, b.m.heap[b.inode.children[1]]))

BalanceLeftSide(F, m, inode) ==
    BalanceLeftDown(F, BalanceFirstChildWithSecond(F, m, inode))

\* Inode::balance_right_side: the mirror image.
RECURSIVE BalanceRightSide(_, _, _)
BalanceRightUp(F, inode, down) ==
    BalanceLastChildWithPenultimate(
        F, Store(down.m, inode.children[Len(inode.children)], down.inode), inode)

BalanceRightDown(F, b) ==
    IF b.m.heap[b.inode.children[Len(b.inode.children)]].leaf THEN b
    ELSE BalanceRightUp(F, b.inode,
                        BalanceRightSide(F, b.m, b.m.heap[b.inode.children[Len(b.inode.children)]]))

BalanceRightSide(F, m, inode) ==
    BalanceRightDown(F, BalanceLastChildWithPenultimate(F, m, inode))

\* ------------------------------------------------------------------ tree

\* A tree: the machine it lives on and its root handle.
TreeOf(m, root) == [m |-> m, root |-> root]

\* Arc::new(node) as the root of a tree.
NewTree(m, node) == TreeOf(Alloc(m, node), NextId(m))

\* Tree::pull_up_root: while the root is an inode with a single child, the
\* child becomes the root.  Arc::get_mut(root).unwrap() panics on a shared
\* root.
RECURSIVE PullUpRoot(_, _)
\* pull_up_root with an if in the place of the while.
PullUpRoot_once(m, root) ==
    IF ~m.heap[root].leaf /\ Len(m.heap[root].children) = 1
    THEN TreeOf([m EXCEPT !.panic = @ \/ (root \in m.live),
                          !.heap[root].children = <<>>],
                m.heap[root].children[1])
    ELSE TreeOf([m EXCEPT !.panic = @ \/ (root \in m.live)], root)

PullUpRoot(m, root) ==
    IF ~m.heap[root].leaf /\ Len(m.heap[root].children) = 1
    THEN PullUpRoot([m EXCEPT !.panic = @ \/ (root \in m.live),
                              !.heap[root].children = <<>>],
                    m.heap[root].children[1])
    ELSE TreeOf([m EXCEPT !.panic = @ \/ (root \in m.live)], root)

\* A handle put in front of the handles a step returned.
Cons(id, r) == [m |-> r.m, ids |-> <<id>> \o r.ids]

\* Arc::new of each node of a sequence: the machine and the handles.
RECURSIVE AllocAll(_, _)
AllocAll(m, nodes) ==
    IF nodes = <<>> THEN [m |-> m, ids |-> <<>>]
    ELSE Cons(NextId(m), AllocAll(Alloc(m, Head(nodes)), Tail(nodes)))

\* One pass of the level loop of Tree::from_leaves: the nodes are taken
\* FANOUT at a time (Iterator::take) and each run becomes an inode.
RECURSIVE BuildLevel(_, _, _)
\* The level loop with a run shorter than FANOUT left out.
BuildLevel_dropShort(F, m, nodes) ==
    IF Len(nodes) < F THEN [m |-> m, ids |-> <<>>]
    ELSE Cons(NextId(m),
              BuildLevel(F, Alloc(m, InodeFromChildren(m.heap, SubSeq(nodes, 1, F))),
                         SubSeq(nodes, F + 1, Len(nodes))))

BuildLevel(F, m, nodes) ==
    IF nodes = <<>> THEN [m |-> m, ids |-> <<>>]
    ELSE Cons(NextId(m),
              BuildLevel(F,
                         Alloc(m, InodeFromChildren(m.heap, SubSeq(nodes, 1, Min(F, Len(nodes))))),
                         SubSeq(nodes, Min(F, Len(nodes)) + 1, Len(nodes))))

\* The level loop of Tree::from_leaves: while nodes.len() > FANOUT.
RECURSIVE BuildLevels(_, _)
BuildLevels(F, lvl) ==
    IF Len(lvl.ids) > F THEN BuildLevels(F, BuildLevel(F, lvl.m, lvl.ids)) ELSE lvl

\* Tree::default(): a single leaf holding L::default().
TreeDefault(m) == NewTree(m, LnodeFrom(<<>>))

\* The end of Tree::from_leaves: the root inode, balance_right_side,
\* pull_up_root.
WrapBalanced(bal) == PullUpRoot(Alloc(bal.m, bal.inode), NextId(bal.m))

\* The end of from_leaves without balance_right_side.
WrapRoot_noBalance(F, top) ==
    WrapBalanced([m |-> top.m, inode |-> InodeFromChildren(top.m.heap, top.ids)])

WrapRoot(F, top) ==
    WrapBalanced(BalanceRightSide(F, top.m, InodeFromChildren(top.m.heap, top.ids)))

\* from_leaves without the early return on a single item.
FromLeaves_noEarlyReturn(F, m, ls) ==
    IF ls = <<>> THEN TreeDefault(m)
    ELSE WrapRoot(F, BuildLevels(F, AllocAll(m, [i \in 1..Len(ls) |-> LnodeFrom(ls[i])])))

\* Tree::from_leaves
FromLeaves(F, m, ls) ==
    IF ls = <<>> THEN TreeDefault(m)
    ELSE IF Len(ls) = 1 THEN NewTree(m, LnodeFrom(ls[1]))
    ELSE WrapRoot(F, BuildLevels(F, AllocAll(m, [i \in 1..Len(ls) |-> LnodeFrom(ls[i])])))

\* ------------------------------------------------------------- tree slice

\* The base measure of the first n children of a list of handles.
RECURSIVE MeasureOf(_, _, _)
MeasureOf(h, ids, n) ==
    IF n = 0 THEN 0 ELSE MeasureOf(h, ids, n - 1) + ByteMeasure(h[ids[n]].summary)

\* The first child from index i on with offset + this > at (0 when none):
\* the child that holds the byte at `at`.
RECURSIVE ChildAfter(_, _, _, _)
ChildAfter(h, ids, i, at) ==
    IF i > Len(ids) THEN 0
    ELSE IF MeasureOf(h, ids, i) > at THEN i
    ELSE ChildAfter(h, ids, i + 1, at)

\* The first child from index i on with offset + this >= at (0 when none):
\* the child that holds the byte before `at`.
RECURSIVE ChildUpTo(_, _, _, _)
ChildUpTo(h, ids, i, at) ==
    IF i > Len(ids) THEN 0
    ELSE IF MeasureOf(h, ids, i) >= at THEN i
    ELSE ChildUpTo(h, ids, i + 1, at)

\* The deepest node whose subtree covers the byte range [a, b), with the
\* range made relative to that node.
RECURSIVE DeepestNode(_, _, _, _)
DeepestIn(h, id, a, b, i) ==
    IF b <= MeasureOf(h, h[id].children, i)
    THEN DeepestNode(h, h[id].children[i],
                     a - MeasureOf(h, h[id].children, i - 1),
                     b - MeasureOf(h, h[id].children, i - 1))
    ELSE [root |-> id, a |-> a, b |-> b]

DeepestNode(h, id, a, b) ==
    IF h[id].leaf THEN [root |-> id, a |-> a, b |-> b]
    ELSE IF ChildAfter(h, h[id].children, 1, a) = 0
    THEN DeepestIn(h, id, a, b, Len(h[id].children))
    ELSE DeepestIn(h, id, a, b, ChildAfter(h, h[id].children, 1, a))

\* The number of bytes in the first n sequences of a sequence of sequences.
RECURSIVE LenOf(_, _)
LenOf(vs, n) == IF n = 0 THEN 0 ELSE LenOf(vs, n - 1) + Len(vs[n])

\* The leaf that holds the byte at `at` (the last leaf when none does), and
\* the leaf that holds the byte before `at`.
LeafAfter(vs, at) ==
    CHOOSE k \in 1..Len(vs) :
        /\ (LenOf(vs, k) > at \/ k = Len(vs))
        /\ \A j \in 1..(k - 1) : LenOf(vs, j) <= at

LeafUpTo(vs, at) ==
    CHOOSE k \in 1..Len(vs) :
        /\ LenOf(vs, k) >= at
        /\ \A j \in 1..(k - 1) : LenOf(vs, j) < at

\* The TreeSlice of the range [a, b) of the node `root`, whose leaves are vs
\* and of which i is the first leaf spanned and j the last.
SliceOfLeaves(root, vs, a, b, i, j) ==
    [root |-> root,
     offset |-> Summarize(Sub(Flatten(vs), 0, a)),
     first_slice |-> Sub(vs[i], a - LenOf(vs, i - 1), Min(b - LenOf(vs, i - 1), Len(vs[i]))),
     first_summary |->
        Summarize(Sub(vs[i], a - LenOf(vs, i - 1), Min(b - LenOf(vs, i - 1), Len(vs[i])))),
     last_slice |-> Sub(vs[j], IF i = j THEN a - LenOf(vs, j - 1) ELSE 0, b - LenOf(vs, j - 1)),
     last_summary |->
        Summarize(Sub(vs[j], IF i = j THEN a - LenOf(vs, j - 1) ELSE 0, b - LenOf(vs, j - 1))),
     leaf_count |-> j - i + 1,
     summary |-> Summarize(Sub(Flatten(vs), a, b))]

\* The TreeSlice of an empty range: one leaf spanned, nothing of it taken.
EmptySliceOf(root, vs, a) ==
    [root |-> root,
     offset |-> Summarize(Sub(Flatten(vs), 0, a)),
     first_slice |-> <<>>,
     first_summary |-> EmptySummary,
     last_slice |-> <<>>,
     last_summary |-> EmptySummary,
     leaf_count |-> 1,
     summary |-> EmptySummary]

SliceOfNode(d, vs) ==
    IF d.a = d.b THEN EmptySliceOf(d.root, vs, d.a)
    ELSE SliceOfLeaves(d.root, vs, d.a, d.b, LeafAfter(vs, d.a), LeafUpTo(vs, d.b))

SliceOfDeepest(h, d) == SliceOfNode(d, LeafValues(h, d.root))

\* TreeSlice::from_range_in_root for a ByteMetric range: the smallest subtree
\* that covers the range, the fragments of its first and last leaf, the number
\* of leaves spanned and the summaries.
FromRangeInRoot(h, root, a, b) == SliceOfDeepest(h, DeepestNode(h, root, a, b))

\* TreeSlice::base_measure
SliceBaseMeasure(sl) == ByteMeasure(sl.summary)

\* ------------------------------------------------------ slice into a tree

\* What a cut returns: the machine, the handle of the node built and the count
\* of invalid nodes.
CutOf(m, id, invalid) == [m |-> m, id |-> id, invalid |-> invalid]

\* cut_first_rec, the leaf: Lnode::new(start_slice, start_summary); a leaf
\* that is not big enough adds one to the count.
CutFirstLeaf(m, lnode, invalid_nodes) ==
    CutOf(Alloc(m, lnode), NextId(m),
          IF ~IsBigEnough(lnode) THEN invalid_nodes + 1 ELSE invalid_nodes)

\* cut_first_rec, the end of the inode case: an inode without enough children
\* adds one to the count; Arc::new(Node::Internal(inode)).  A count taken below
\* zero is an arithmetic overflow.
CutFirstDone(F, bal, invalid_nodes) ==
    CutOf(Alloc([bal.m EXCEPT !.panic = @ \/ invalid_nodes < 0], bal.inode),
          NextId(bal.m),
          IF ~HasEnoughChildren(F, bal.inode) THEN invalid_nodes + 1 ELSE invalid_nodes)

\* cut_first_rec, the inode case once the first child is cut: an invalid first
\* child with a sibling is balanced with it and the count goes down by one.
CutFirstBalance(F, first, inode) ==
    IF ~IsValid(F, first.m.heap[first.id]) /\ Len(inode.children) > 1
    THEN CutFirstDone(F, BalanceFirstChildWithSecond(F, first.m, inode), first.invalid - 1)
    ELSE CutFirstDone(F, [m |-> first.m, inode |-> inode], first.invalid)

\* cut_first_rec, the inode case: the cut first child is pushed, then the
\* children after it, Arc::clone'd.
CutFirstPush(F, c, i, first) ==
    CutFirstBalance(F, first,
                    InodePushAll(first.m.heap,
                                 InodePush(first.m.heap, InodeEmpty, first.id),
                                 SubSeq(c, i + 1, Len(c))))

\* from_treeslice::cut_first_rec: the node rebuilt without what lies before
\* take_from; the leaf reached becomes start_slice.
RECURSIVE CutFirstRec(_, _, _, _, _, _, _)
CutFirstIn(F, m, c, i, take_from, start_slice, start_summary, invalid_nodes) ==
    IF i = 0 THEN CutOf([m EXCEPT !.panic = TRUE], 0, invalid_nodes)
    ELSE CutFirstPush(F, c, i,
                      CutFirstRec(F, m, c[i], take_from - MeasureOf(m.heap, c, i - 1),
                                  start_slice, start_summary, invalid_nodes))

\* cut_first_rec writing the fragment into the leaf it was cut from.
CutFirstRec_inPlace(F, m, node, take_from, start_slice, start_summary, invalid_nodes) ==
    IF m.heap[node].leaf
    THEN CutOf([m EXCEPT !.heap[node] = LnodeNew(start_slice, start_summary)], node,
               IF ~IsBigEnough(LnodeNew(start_slice, start_summary))
               THEN invalid_nodes + 1 ELSE invalid_nodes)
    ELSE CutFirstIn(F, m, m.heap[node].children,
                    ChildAfter(m.heap, m.heap[node].children, 1, take_from),
                    take_from, start_slice, start_summary, invalid_nodes)

CutFirstRec(F, m, node, take_from, start_slice, start_summary, invalid_nodes) ==
    IF m.heap[node].leaf
    THEN CutFirstLeaf(m, LnodeNew(start_slice, start_summary), invalid_nodes)
    ELSE CutFirstIn(F, m, m.heap[node].children,
                    ChildAfter(m.heap, m.heap[node].children, 1, take_from),
                    take_from, start_slice, start_summary, invalid_nodes)

\* cut_last_rec, the leaf: Lnode::new(end_slice, end_summary); a leaf that is
\* not big enough sets the count to 1.
CutLastLeaf(m, lnode, invalid_nodes) ==
    CutOf(Alloc(m, lnode), NextId(m), IF ~IsBigEnough(lnode) THEN 1 ELSE invalid_nodes)

\* cut_last_rec, the end of the inode case.
CutLastDone(F, bal, invalid_nodes) ==
    CutOf(Alloc([bal.m EXCEPT !.panic = @ \/ invalid_nodes < 0], bal.inode),
          NextId(bal.m),
          IF ~HasEnoughChildren(F, bal.inode) THEN invalid_nodes + 1 ELSE invalid_nodes)

\* cut_last_rec, the inode case once the last child is cut: an invalid last
\* child with a sibling is balanced with it and the count goes down by one.
CutLastBalance(F, last, inode) ==
    IF ~IsValid(F, last.m.heap[last.id]) /\ Len(inode.children) > 1
    THEN CutLastDone(F, BalanceLastChildWithPenultimate(F, last.m, inode), last.invalid - 1)
    ELSE CutLastDone(F, [m |-> last.m, inode |-> inode], last.invalid)

\* cut_last_rec, the inode case: the children before the cut one are pushed,
\* Arc::clone'd, then the cut last child.
CutLastPush(F, c, i, last) ==
    CutLastBalance(F, last,
                   InodePush(last.m.heap,
                             InodeFromChildren(last.m.heap, SubSeq(c, 1, i - 1)),
                             last.id))

\* from_treeslice::cut_last_rec: the node rebuilt without what lies after
\* take_up_to; the leaf reached becomes end_slice.
RECURSIVE CutLastRec(_, _, _, _, _, _, _)
CutLastIn(F, m, c, i, take_up_to, end_slice, end_summary, invalid_nodes) ==
    IF i = 0 THEN CutOf([m EXCEPT !.panic = TRUE], 0, invalid_nodes)
    ELSE CutLastPush(F, c, i,
                     CutLastRec(F, m, c[i], take_up_to - MeasureOf(m.heap, c, i - 1),
                                end_slice, end_summary, invalid_nodes))

CutLastRec(F, m, node, take_up_to, end_slice, end_summary, invalid_nodes) ==
    IF m.heap[node].leaf
    THEN CutLastLeaf(m, LnodeNew(end_slice, end_summary), invalid_nodes)
    ELSE CutLastIn(F, m, m.heap[node].children,
                   ChildUpTo(m.heap, m.heap[node].children, 1, take_up_to),
                   take_up_to, end_slice, end_summary, invalid_nodes)

\* What cut_tree_slice has built so far: the machine, the root inode and the
\* two counts.
CutRoot(m, root, invalid_first, invalid_last) ==
    [m |-> m, root |-> root, invalid_first |-> invalid_first, invalid_last |-> invalid_last]

\* cut_tree_slice, the first loop: the child that holds the start is pushed,
\* Arc::clone'd when the slice starts where the root starts and cut otherwise.
\* i is the child the loop stops at (0: none).
CutHeadPush(first) ==
    CutRoot(first.m, InodePush(first.m.heap, InodeEmpty, first.id), first.invalid, 0)

CutHead(F, m, sl, c, i, start) ==
    IF i = 0 THEN CutRoot(m, InodeEmpty, 0, 0)
    ELSE IF start = 0 THEN CutHeadPush(CutOf(m, c[i], 0))
    ELSE CutHeadPush(CutFirstRec(F, m, c[i], start - MeasureOf(m.heap, c, i - 1),
                                 sl.first_slice, sl.first_summary, 0))

\* cut_tree_slice, the second loop: the children before the one that holds the
\* end are pushed, Arc::clone'd; that one is Arc::clone'd when the slice ends
\* where the root ends and cut otherwise.  j is the child the loop stops at.
CutTailPush(head, last) ==
    CutRoot(last.m, InodePush(last.m.heap, head.root, last.id),
            head.invalid_first, last.invalid)

CutTailLast(F, sl, c, j, end, head) ==
    IF end = ByteMeasure(head.m.heap[sl.root].summary)
    THEN CutTailPush(head, CutOf(head.m, c[j], 0))
    ELSE CutTailPush(head,
                     CutLastRec(F, head.m, c[j], end - MeasureOf(head.m.heap, c, j - 1),
                                sl.last_slice, sl.last_summary, 0))

CutTail(F, sl, c, from, j, end, head) ==
    IF j = 0
    THEN [head EXCEPT !.root = InodePushAll(head.m.heap, @, SubSeq(c, from, Len(c)))]
    ELSE CutTailLast(F, sl, c, j, end,
                     [head EXCEPT !.root = InodePushAll(head.m.heap, @, SubSeq(c, from, j - 1))])

CutLoops(F, m, sl, c, i, start, end) ==
    CutTail(F, sl, c,
            IF i = 0 THEN Len(c) + 1 ELSE i + 1,
            ChildUpTo(m.heap, c, IF i = 0 THEN Len(c) + 1 ELSE i + 1, end),
            end,
            CutHead(F, m, sl, c, i, start))

\* from_treeslice::cut_tree_slice: the root inode made of the children of the
\* slice's root from the one that holds the start to the one that holds the
\* end, the first and the last cut, and the two counts of invalid nodes.
CutTreeSlice(F, m, sl) ==
    CutLoops(F, m, sl, m.heap[sl.root].children,
             ChildAfter(m.heap, m.heap[sl.root].children, 1, ByteMeasure(sl.offset)),
             ByteMeasure(sl.offset),
             ByteMeasure(sl.offset) + SliceBaseMeasure(sl))

\* A tree with the counts cut_tree_slice returned.
Counted(t, invalid_first, invalid_last) ==
    [m |-> t.m, root |-> t.root, invalid_first |-> invalid_first, invalid_last |-> invalid_last]

\* into_tree_root: the root written back after a balance (the tree holds it),
\* then pull_up_root.
PullUpBalanced(root, bal) == PullUpRoot(Store(bal.m, root, bal.inode), root)

\* into_tree_root: balance_left_side and pull_up_root when the first child
\* holds invalid nodes.
BalanceTreeLeft(F, invalid_first, t) ==
    IF invalid_first > 0
    THEN PullUpBalanced(t.root, BalanceLeftSide(F, t.m, t.m.heap[t.root]))
    ELSE t

\* into_tree_root: balance_right_side and pull_up_root when the last child
\* holds invalid nodes.  as_mut_internal_unchecked on a root that is a leaf is
\* undefined behaviour.
BalanceTreeRight(F, invalid_last, t) ==
    IF invalid_last > 0
    THEN IF t.m.heap[t.root].leaf
         THEN TreeOf([t.m EXCEPT !.ub = TRUE], t.root)
         ELSE PullUpBalanced(t.root, BalanceRightSide(F, t.m, t.m.heap[t.root]))
    ELSE t

IntoTreeRootOf(F, cut) ==
    Counted(BalanceTreeRight(F, cut.invalid_last,
                BalanceTreeLeft(F, cut.invalid_first, NewTree(cut.m, cut.root))),
            cut.invalid_first, cut.invalid_last)

\* from_treeslice::into_tree_root: the cut root is wrapped in a tree; its left
\* side is balanced when the first child holds invalid nodes, its right side
\* when the last child does, with pull_up_root after each.
IntoTreeRoot(F, m, sl) == IntoTreeRootOf(F, CutTreeSlice(F, m, sl))

\* Tree::from(slice), two leaves spanned: the two fragments go through
\* balance_slices and make one leaf, or two under a new root.
TwoLeafRoot(m, first, second) ==
    NewTree(m, InodeFromChildren(m.heap, <<first, second>>))

TreeOfTwo(m, bal) ==
    IF bal.has_second
    THEN TwoLeafRoot(Alloc(Alloc(m, LnodeFrom(bal.first)), LnodeFrom(bal.second)),
                     NextId(m), NextId(m) + 1)
    ELSE NewTree(m, LnodeFrom(bal.first))

\* The single leaf with the summary of the slice's root.
TreeOfOne_rootSummary(m, sl) == NewTree(m, LnodeNew(sl.first_slice, m.heap[sl.root].summary))

\* Tree::from(slice), one leaf spanned: Lnode::new(first_slice.to_owned(),
\* slice.summary).
TreeOfOne(m, sl) == NewTree(m, LnodeNew(sl.first_slice, sl.summary))

\* Tree::from(slice) with the leaf-count cases tried before the whole-tree
\* case.
TreeFromSlice_leafCountFirst(F, m, sl) ==
    IF sl.leaf_count = 1
    THEN Counted(TreeOfOne(m, sl), 0, 0)
    ELSE IF sl.leaf_count = 2
    THEN Counted(TreeOfTwo(m, BalanceSlices(sl.first_slice, sl.last_slice)), 0, 0)
    ELSE IF SliceBaseMeasure(sl) = ByteMeasure(m.heap[sl.root].summary)
    THEN Counted(TreeOf(m, sl.root), 0, 0)
    ELSE IntoTreeRoot(F, m, sl)

\* impl From<TreeSlice> for Tree
TreeFromSlice(F, m, sl) ==
    IF SliceBaseMeasure(sl) = ByteMeasure(m.heap[sl.root].summary)
    THEN Counted(TreeOf(m, sl.root), 0, 0)
    ELSE IF sl.leaf_count = 1
    THEN Counted(TreeOfOne(m, sl), 0, 0)
    ELSE IF sl.leaf_count = 2
    THEN Counted(TreeOfTwo(m, BalanceSlices(sl.first_slice, sl.last_slice)), 0, 0)
    ELSE IntoTreeRoot(F, m, sl)

\* ------------------------------------------------------------------ rope

\* ROPE_FANOUT of the test build.
ROPE_FANOUT == 2

\* TextChunkIter: the text cut into chunks of at most max_bytes bytes.
RECURSIVE TextChunkIter(_)
TextChunkIter(s) ==
    IF Len(s) <= MaxBytes THEN (IF s = <<>> THEN <<>> ELSE <<s>>)
    ELSE <<Sub(s, 0, MaxBytes)>> \o TextChunkIter(Sub(s, MaxBytes, Len(s)))

\* s.as_bytes().last() == Some(b'\n')
LastByteIsNewline(s) == s # <<>> /\ s[Len(s)] = NL

\* A rope: its tree and its last_byte_is_newline.
RopeOf(t, last_byte_is_newline) ==
    [m |-> t.m, root |-> t.root, last_byte_is_newline |-> last_byte_is_newline]

\* Rope::new(): Rope::default()
RopeNew(m) == RopeOf(TreeDefault(m), FALSE)

\* impl From<&str> for Rope
RopeFromStr(F, m, s) ==
    IF s = <<>> THEN RopeNew(m)
    ELSE RopeOf(FromLeaves(F, m, TextChunkIter(s)), LastByteIsNewline(s))

\* impl From<String> for Rope
RopeFromString(F, m, s) ==
    IF Len(s) <= MaxBytes
    THEN RopeOf(FromLeaves(F, m, <<s>>), IF s = <<>> THEN FALSE ELSE s[Len(s)] = NL)
    ELSE RopeFromStr(F, m, s)

\* impl From<RopeSlice> for Rope
RopeOfSlice(t) ==
    [m |-> t.m, root |-> t.root, last_byte_is_newline |-> FALSE,
     invalid_first |-> t.invalid_first, invalid_last |-> t.invalid_last]

RopeFromSlice(F, m, sl) == RopeOfSlice(TreeFromSlice(F, m, sl))

\* Rope::line_len
LineLen(h, root, last_byte_is_newline) ==
    h[root].summary.line_breaks + 1 - (IF last_byte_is_newline THEN 1 ELSE 0)

\* Rope::byte_len
ByteLen(h, root) == h[root].summary.bytes

\* ------------------------------------------------------------ invariants

\* The depths at which the leaves below a node sit.
RECURSIVE LeafDepths(_, _)
LeafDepths(h, id) ==
    IF h[id].leaf THEN {0}
    ELSE UNION {{d + 1 : d \in LeafDepths(h, h[id].children[i])} : i \in 1..Len(h[id].children)}

\* Node::assert_invariants: an inode that is not the root has between
\* min_children and FANOUT children, and so down the tree.
RECURSIVE NodeInvariants(_, _, _)
NodeInvariants(F, h, id) ==
    \/ h[id].leaf
    \/ /\ Len(h[id].children) >= MinChildren(F)
       /\ Len(h[id].children) <= F
       /\ \A i \in 1..Len(h[id].children) : NodeInvariants(F, h, h[id].children[i])

\* Tree::assert_invariants: a root inode has between 2 and FANOUT children
\* and every child keeps the node invariants.
AssertInvariants(F, h, root) ==
    \/ h[root].leaf
    \/ /\ Len(h[root].children) >= 2
       /\ Len(h[root].children) <= F
       /\ \A i \in 1..Len(h[root].children) : NodeInvariants(F, h, h[root].children[i])

\* All leaves sit at the same depth.
SameDepth(h, root) == Cardinality(LeafDepths(h, root)) = 1

\* Every leaf below a node is big enough.
LeavesBigEnough(h, root) ==
    \A id \in Reach(h, root) : h[id].leaf => IsBigEnough(h[id])

\* The summary a node should cache: the fold of the summaries of the leaves
\* below it.
RECURSIVE FoldSummaries(_)
FoldSummaries(vs) ==
    IF vs = <<>> THEN EmptySummary ELSE SumAdd(Summarize(Head(vs)), FoldSummaries(Tail(vs)))

FoldSummary(h, id) == FoldSummaries(LeafValues(h, id))

\* Every node below a root caches the fold of the summaries of its leaves.
SummariesCached(h, root) ==
    \A id \in Reach(h, root) : h[id].summary = FoldSummary(h, id)

\* ---------------------------------------------------------------- inputs

\* The gaps between line breaks in the input texts: 0 stands for none.
NlGaps == {0, 3}

\* The byte at position p (from 1) of an input text: a line break every gap
\* bytes, and otherwise a byte that tells its position.
ByteAt(p, gap) == IF gap > 0 /\ p % gap = 0 THEN NL ELSE NL + p

\* n leaves of len bytes each, the last one of last bytes.
MkLeaves(n, len, last, gap) ==
    [i \in 1..n |->
        [k \in 1..(IF i = n THEN last ELSE len) |-> ByteAt((i - 1) * len + k, gap)]]

InputLeaves ==
    {MkLeaves(n, len, last, gap) :
        n \in 0..MaxLeaves, len \in MinBytes..MaxBytes, last \in 1..MaxBytes, gap \in NlGaps}

NoSlice ==
    [root |-> 0, offset |-> EmptySummary, first_slice |-> <<>>,
     first_summary |-> EmptySummary, last_slice |-> <<>>,
     last_summary |-> EmptySummary, leaf_count |-> 0, summary |-> EmptySummary]

NoAux == [invalid_first |-> 0, invalid_last |-> 0]

NoOut == [left |-> <<>>, left_summary |-> EmptySummary,
          right |-> <<>>, right_summary |-> EmptySummary]

\* ---------------------------------------------------------------- actions

Init ==
    /\ pc = "init"
    /\ fanout \in 2..MaxFanout
    /\ leaves \in InputLeaves
    /\ heap = <<>>
    /\ tree = 0
    /\ kind = "none"
    /\ rope_lbn = FALSE
    /\ range = <<0, 0>>
    /\ slice = NoSlice
    /\ res = 0
    /\ res_lbn = FALSE
    /\ aux = NoAux
    /\ chunk = <<>>
    /\ op = "none"
    /\ arg = 0
    /\ out = NoOut

\* The source tree or rope is built.
Built(r, k, lbn) ==
    /\ heap' = r.m.heap
    /\ tree' = r.root
    /\ rope_lbn' = lbn
    /\ kind' = k
    /\ pc' = "built"
    /\ UNCHANGED <<fanout, leaves, range, slice, res, res_lbn, aux>>
    /\ UNCHANGED metricVars

\* The outcomes of a run.  Undefined behaviour is caught by a debug assertion
\* (a panic), or the process dies of it, or the inode read off the leaf's bytes
\* looks childless and the call does nothing.  Otherwise: a panic or the
\* result.
Outcomes(m) ==
    IF m.panic THEN {"panicked"}
    ELSE IF m.ub THEN {"panicked", "undefined", "done"}
    ELSE {"done"}

\* The slice is materialized; a run that fails leaves no tree behind.
Materialized(r, lbn) ==
    /\ pc' \in Outcomes(r.m)
    /\ heap' = IF pc' = "done" THEN r.m.heap ELSE heap
    /\ res' = IF pc' = "done" THEN r.root ELSE 0
    /\ res_lbn' = lbn
    /\ aux' = [invalid_first |-> r.invalid_first, invalid_last |-> r.invalid_last]
    /\ UNCHANGED <<fanout, leaves, tree, kind, rope_lbn, range, slice>>
    /\ UNCHANGED metricVars

\* Tree::from_leaves(leaves)
DoFromLeaves ==
    /\ pc = "init"
    /\ Built(FromLeaves(fanout, Machine(heap, {}), leaves), "tree", FALSE)

\* Rope::new()
DoRopeNew ==
    /\ pc = "init"
    /\ leaves = <<>>
    /\ fanout = ROPE_FANOUT
    /\ Built(RopeNew(Machine(heap, {})), "new", RopeNew(Machine(heap, {})).last_byte_is_newline)

\* Rope::from(&str) of the text the input chunks spell.
DoRopeFromStr ==
    /\ pc = "init"
    /\ fanout = ROPE_FANOUT
    /\ leaves = TextChunkIter(Flatten(leaves))
    /\ Built(RopeFromStr(fanout, Machine(heap, {}), Flatten(leaves)), "str",
             RopeFromStr(fanout, Machine(heap, {}), Flatten(leaves)).last_byte_is_newline)

\* Rope::from(String) of the text the input chunks spell.
DoRopeFromString ==
    /\ pc = "init"
    /\ fanout = ROPE_FANOUT
    /\ leaves = TextChunkIter(Flatten(leaves))
    /\ Built(RopeFromString(fanout, Machine(heap, {}), Flatten(leaves)), "string",
             RopeFromString(fanout, Machine(heap, {}), Flatten(leaves)).last_byte_is_newline)

\* Tree::slice(ByteMetric(a)..ByteMetric(b)) / Rope::byte_slice(a..b)
DoSlice ==
    /\ pc = "built"
    /\ \E a \in 0..ByteLen(heap, tree) : \E b \in a..ByteLen(heap, tree) :
          /\ range' = <<a, b>>
          /\ slice' = FromRangeInRoot(heap, tree, a, b)
    /\ pc' = "sliced"
    /\ UNCHANGED <<fanout, leaves, heap, tree, kind, rope_lbn, res, res_lbn, aux>>
    /\ UNCHANGED metricVars

\* Tree::from(slice), the source tree still alive.
DoTreeFromSlice ==
    /\ pc = "sliced"
    /\ kind = "tree"
    /\ Materialized(TreeFromSlice(fanout, Machine(heap, Reach(heap, tree)), slice), FALSE)

\* Rope::from(rope_slice), the source rope still alive.
DoRopeFromSlice ==
    /\ pc = "sliced"
    /\ kind # "tree"
    /\ Materialized(RopeFromSlice(fanout, Machine(heap, Reach(heap, tree)), slice),
                    RopeFromSlice(fanout, Machine(heap, Reach(heap, tree)), slice).last_byte_is_newline)

Next ==
    \/ DoFromLeaves
    \/ DoRopeNew
    \/ DoRopeFromStr
    \/ DoRopeFromString
    \/ DoSlice
    \/ DoTreeFromSlice
    \/ DoRopeFromSlice

Spec == Init /\ [][Next]_vars

\* --------------------------------------------------------------- metrics

\* A byte that is not a line break.
Letter == NL + 1

\* The chunks handed to the metrics: every text of at most MaxChunkLen bytes.
Chunks == UNION {[1..n -> {NL, Letter}] : n \in 0..MaxChunkLen}

\* GapSlice::split_at_byte
SplitAtByte(c, byte_offset) ==
    [left |-> Sub(c, 0, byte_offset), right |-> Sub(c, byte_offset, Len(c))]

\* The byte offset right after the k-th '\n' counted from offset i, or the
\* length of the chunk when it has fewer.
RECURSIVE ByteOfLine(_, _, _)
ByteOfLine(c, k, i) ==
    IF k = 0 \/ i >= Len(c) THEN i
    ELSE ByteOfLine(c, IF c[i + 1] = NL THEN k - 1 ELSE k, i + 1)

\* GapSlice::split_at_line: the left side holds exactly line_offset line
\* breaks and ends with the last of them.  RawLineMetric::last_unit and
\* RawLineMetric::remainder call it with the total line-break count to get the
\* unterminated text as the right side, which fixes where the split sits.
SplitAtLine(c, line_offset) == SplitAtByte(c, ByteOfLine(c, line_offset, 0))

\* GapSlice::has_trailing_newline
HasTrailingNewline(c) == Len(c) > 0 /\ c[Len(c)] = NL

\* GapSlice::truncate_trailing_line_break: the slice without its trailing
\* line break, and the number of bytes removed.
TruncateTrailingLineBreak(c) ==
    IF HasTrailingNewline(c)
    THEN [slice |-> Sub(c, 0, Len(c) - 1), bytes_removed |-> 1]
    ELSE [slice |-> c, bytes_removed |-> 0]

\* ByteMetric::split, after chunk.split_at_byte: the shorter side is
\* summarized, the other summary is derived.
ByteMetricSplit_bothDerived(c, byte_offset, summary, s) ==
    [left |-> s.left, left_summary |-> SumSub(summary, Summarize(s.left)),
     right |-> s.right, right_summary |-> SumSub(summary, Summarize(s.right))]

ByteMetricSplitOf(c, byte_offset, summary, s) ==
    IF byte_offset < Len(c) \div 2
    THEN [left |-> s.left, left_summary |-> Summarize(s.left),
          right |-> s.right, right_summary |-> SumSub(summary, Summarize(s.left))]
    ELSE [left |-> s.left, left_summary |-> SumSub(summary, Summarize(s.right)),
          right |-> s.right, right_summary |-> Summarize(s.right)]

\* impl SlicingMetric for ByteMetric: split
ByteMetricSplit(c, byte_offset, summary) ==
    IF byte_offset = Len(c)
    THEN [left |-> c, left_summary |-> summary,
          right |-> <<>>, right_summary |-> EmptySummary]
    ELSE ByteMetricSplitOf(c, byte_offset, summary, SplitAtByte(c, byte_offset))

RawLineMetricSplit_noLineBreaks(line_offset, summary, s) ==
    [left |-> s.left,
     left_summary |-> [bytes |-> Len(s.left), line_breaks |-> 0],
     right |-> s.right,
     right_summary |-> SumSub(summary, [bytes |-> Len(s.left), line_breaks |-> 0])]

\* RawLineMetric::split, after chunk.split_at_line.
RawLineMetricSplitOf(line_offset, summary, s) ==
    [left |-> s.left,
     left_summary |-> [bytes |-> Len(s.left), line_breaks |-> line_offset],
     right |-> s.right,
     right_summary |->
         SumSub(summary, [bytes |-> Len(s.left), line_breaks |-> line_offset])]

\* impl SlicingMetric for RawLineMetric: split
RawLineMetricSplit(c, line_offset, summary) ==
    RawLineMetricSplitOf(line_offset, summary, SplitAtLine(c, line_offset))

\* RawLineMetric::first_unit, after Self::split(chunk, RawLineMetric(1), summary).
RawLineMetricFirstUnitOf(s) ==
    [first |-> s.left, first_summary |-> s.left_summary, advance |-> s.left_summary,
     rest |-> s.right, rest_summary |-> s.right_summary]

\* impl UnitMetric for RawLineMetric: first_unit
RawLineMetricFirstUnit(c, summary) ==
    RawLineMetricFirstUnitOf(RawLineMetricSplit(c, 1, summary))

RawLineMetricLastUnit_restWhole(summary, s, line_breaks) ==
    [rest |-> s.left, rest_summary |-> summary,
     last |-> s.right,
     last_summary |-> [bytes |-> Len(s.right), line_breaks |-> line_breaks],
     advance |-> [bytes |-> Len(s.right), line_breaks |-> line_breaks]]

\* RawLineMetric::last_unit, after slice.split_at_line.
RawLineMetricLastUnitOf(summary, s, line_breaks) ==
    [rest |-> s.left,
     rest_summary |->
         SumSub(summary, [bytes |-> Len(s.right), line_breaks |-> line_breaks]),
     last |-> s.right,
     last_summary |-> [bytes |-> Len(s.right), line_breaks |-> line_breaks],
     advance |-> [bytes |-> Len(s.right), line_breaks |-> line_breaks]]

\* impl DoubleEndedUnitMetric for RawLineMetric: last_unit
RawLineMetricLastUnit(c, summary) ==
    IF HasTrailingNewline(c)
    THEN RawLineMetricLastUnitOf(summary, SplitAtLine(c, summary.line_breaks - 1), 1)
    ELSE RawLineMetricLastUnitOf(summary, SplitAtLine(c, summary.line_breaks), 0)

RawLineMetricRemainder_dropLast(u) ==
    [rest |-> u.rest \o u.last, rest_summary |-> SumAdd(u.rest_summary, u.last_summary),
     last |-> <<>>, last_summary |-> EmptySummary]

\* RawLineMetric::remainder, after Self::last_unit.
RawLineMetricRemainderOf(u) ==
    [rest |-> u.rest, rest_summary |-> u.rest_summary,
     last |-> u.last, last_summary |-> u.last_summary]

\* impl DoubleEndedUnitMetric for RawLineMetric: remainder
RawLineMetricRemainder(c, summary) ==
    IF HasTrailingNewline(c)
    THEN [rest |-> c, rest_summary |-> summary,
          last |-> <<>>, last_summary |-> EmptySummary]
    ELSE RawLineMetricRemainderOf(RawLineMetricLastUnit(c, summary))

LineMetricFirstUnit_rawAdvance(u, t) ==
    [first |-> t.slice,
     first_summary |-> [bytes |-> u.first_summary.bytes - t.bytes_removed,
                        line_breaks |-> 0],
     advance |-> [bytes |-> u.first_summary.bytes - t.bytes_removed,
                  line_breaks |-> 0],
     rest |-> u.rest, rest_summary |-> u.rest_summary]

\* LineMetric::first_unit, after RawLineMetric::first_unit and
\* first.truncate_trailing_line_break().
LineMetricFirstUnitOf(u, t) ==
    [first |-> t.slice,
     first_summary |-> [bytes |-> u.first_summary.bytes - t.bytes_removed,
                        line_breaks |-> 0],
     advance |-> u.advance,
     rest |-> u.rest, rest_summary |-> u.rest_summary]

\* impl UnitMetric for LineMetric: first_unit
LineMetricFirstUnitRaw(u) == LineMetricFirstUnitOf(u, TruncateTrailingLineBreak(u.first))

LineMetricFirstUnit(c, summary) ==
    LineMetricFirstUnitRaw(RawLineMetricFirstUnit(c, summary))

\* LineMetric::last_unit, after last.truncate_trailing_line_break().
LineMetricLastUnitOf(u, t) ==
    [rest |-> u.rest, rest_summary |-> u.rest_summary,
     last |-> t.slice,
     last_summary |-> [bytes |-> u.last_summary.bytes - t.bytes_removed,
                       line_breaks |-> 0],
     advance |-> u.advance]

\* LineMetric::last_unit, after RawLineMetric::last_unit.
LineMetricLastUnitRaw(u) ==
    IF u.last_summary.line_breaks = 0
    THEN [rest |-> u.rest, rest_summary |-> u.rest_summary, last |-> u.last,
          last_summary |-> u.last_summary, advance |-> u.last_summary]
    ELSE LineMetricLastUnitOf(u, TruncateTrailingLineBreak(u.last))

\* impl DoubleEndedUnitMetric for LineMetric: last_unit
LineMetricLastUnit(c, summary) ==
    LineMetricLastUnitRaw(RawLineMetricLastUnit(c, summary))

\* impl DoubleEndedUnitMetric for LineMetric: remainder
LineMetricRemainder(c, summary) == RawLineMetricRemainder(c, summary)

\* The units taken so far from a chunk, and what is left of it.
UnitsOf(units, rest, rest_summary) ==
    [units |-> units, rest |-> rest, rest_summary |-> rest_summary]

\* One more unit taken with LineMetric::first_unit.
UnitsAfterFirst(units, u) ==
    UnitsOf(Append(units, [unit |-> u.first, summary |-> u.first_summary,
                           advance |-> u.advance]),
            u.rest, u.rest_summary)

\* The remainder taken as the last unit, unless it is empty.
UnitsAfterRemainder(units, r) ==
    UnitsOf(IF r.last = <<>> THEN units
            ELSE Append(units, [unit |-> r.last, summary |-> r.last_summary,
                                advance |-> r.last_summary]),
            <<>>, EmptySummary)

\* ------------------------------------------------------ metric operations

MetricInit ==
    /\ pc = "metric"
    /\ fanout = ROPE_FANOUT
    /\ leaves = <<>>
    /\ heap = <<>>
    /\ tree = 0
    /\ kind = "none"
    /\ rope_lbn = FALSE
    /\ range = <<0, 0>>
    /\ slice = NoSlice
    /\ res = 0
    /\ res_lbn = FALSE
    /\ aux = NoAux
    /\ chunk \in Chunks
    /\ op = "input"
    /\ arg = 0
    /\ out = NoOut

\* A metric operation applied to the chunk.
Applied(name, offset, result) ==
    /\ op' = name
    /\ arg' = offset
    /\ out' = result
    /\ UNCHANGED chunk
    /\ UNCHANGED treeVars

DoByteSplit ==
    /\ op = "input"
    /\ \E byte_offset \in 0..Len(chunk) :
        Applied("ByteMetric::split", byte_offset,
                ByteMetricSplit(chunk, byte_offset, Summarize(chunk)))

DoRawLineSplit ==
    /\ op = "input"
    /\ \E line_offset \in 0..Summarize(chunk).line_breaks :
        Applied("RawLineMetric::split", line_offset,
                RawLineMetricSplit(chunk, line_offset, Summarize(chunk)))

\* first_unit is only asked of a chunk that holds a line break.
DoRawLineFirstUnit ==
    /\ op = "input"
    /\ Summarize(chunk).line_breaks >= 1
    /\ Applied("RawLineMetric::first_unit", 0, RawLineMetricFirstUnit(chunk, Summarize(chunk)))

DoRawLineLastUnit ==
    /\ op = "input"
    /\ Applied("RawLineMetric::last_unit", 0, RawLineMetricLastUnit(chunk, Summarize(chunk)))

DoRawLineRemainder ==
    /\ op = "input"
    /\ Applied("RawLineMetric::remainder", 0, RawLineMetricRemainder(chunk, Summarize(chunk)))

DoLineFirstUnit ==
    /\ op = "input"
    /\ Summarize(chunk).line_breaks >= 1
    /\ Applied("LineMetric::first_unit", 0, LineMetricFirstUnit(chunk, Summarize(chunk)))

DoLineLastUnit ==
    /\ op = "input"
    /\ Applied("LineMetric::last_unit", 0, LineMetricLastUnit(chunk, Summarize(chunk)))

\* The decomposition of the chunk into LineMetric units starts.
DoUnits ==
    /\ op = "input"
    /\ Applied("units", 0, UnitsOf(<<>>, chunk, Summarize(chunk)))

\* While a line break remains, the next unit is the first unit of the rest.
DoUnitsFirst ==
    /\ op = "units"
    /\ out.rest_summary.line_breaks >= 1
    /\ out' = UnitsAfterFirst(out.units, LineMetricFirstUnit(out.rest, out.rest_summary))
    /\ UNCHANGED <<chunk, op, arg>>
    /\ UNCHANGED treeVars

\* With no line break left, the remainder is the last unit.
DoUnitsRemainder ==
    /\ op = "units"
    /\ out.rest_summary.line_breaks = 0
    /\ op' = "units_done"
    /\ out' = UnitsAfterRemainder(out.units, LineMetricRemainder(out.rest, out.rest_summary))
    /\ UNCHANGED <<chunk, arg>>
    /\ UNCHANGED treeVars

MetricNext ==
    \/ DoByteSplit
    \/ DoRawLineSplit
    \/ DoRawLineFirstUnit
    \/ DoRawLineLastUnit
    \/ DoRawLineRemainder
    \/ DoLineFirstUnit
    \/ DoLineLastUnit
    \/ DoUnits
    \/ DoUnitsFirst
    \/ DoUnitsRemainder

MetricSpec == MetricInit /\ [][MetricNext]_vars

\* ----------------------------------------------------------------- claims

\* The materialization ended, with a tree or without.
Finished == pc \in {"done", "panicked", "undefined"}

\* The slice spans the whole of its root.
SliceIsWhole == SliceBaseMeasure(slice) = ByteMeasure(heap[slice.root].summary)

\* The content of the source in the range sliced.
SlicedContent == Sub(Content(heap, tree), range[1], range[2])

\* The number of '\n' in a text.
LineBreaks(s) == Cardinality({i \in 1..Len(s) : s[i] = NL})

\* C1: for every tree T and every byte range [a, b), Tree::from(T.slice(a..b))
\* produces a tree whose leaves, concatenated in order, are the content of T
\* in [a, b), in each of the four cases.
C1_SliceContent ==
    (Finished /\ kind = "tree") => (pc = "done" /\ Content(heap, res) = SlicedContent)

\* C2: for every slice that spans three or more leaves, into_tree_root
\* returns a tree that keeps the branching and depth invariants.
C2_IntoTreeRootInvariants ==
    (Finished /\ kind = "tree" /\ ~SliceIsWhole /\ slice.leaf_count >= 3)
        => (pc = "done" /\ AssertInvariants(fanout, heap, res) /\ SameDepth(heap, res))

\* C3: when the tree materialized from a slice of a tree whose leaves are all
\* big enough has two or more leaves, each of its leaves is big enough.
C3_LeavesBigEnough ==
    (pc = "done" /\ kind = "tree" /\ LeavesBigEnough(heap, tree) /\ ~heap[res].leaf)
        => LeavesBigEnough(heap, res)

\* C4: the tree Tree::from_leaves builds from a non-empty sequence of leaves
\* holds the same content in the same order.
C4_FromLeavesContent ==
    (pc = "built" /\ kind = "tree" /\ leaves # <<>>) => Content(heap, tree) = Flatten(leaves)

\* C4, witness: two levels are built over the leaves, balance_right_side
\* merged the last two leaves and pull_up_root took a level away.
C4_Witness ==
    /\ pc = "built" /\ kind = "tree"
    /\ Len(leaves) = MaxLeaves
    /\ LeafDepths(heap, tree) = {2}
    /\ Len(LeafValues(heap, tree)) < Len(leaves)
    /\ Content(heap, tree) = Flatten(leaves)

\* C5 as stated: for n >= 2 input leaves the root of the tree from_leaves
\* returns is an inode with between 2 and FANOUT children, and every other
\* inode has between ceil(FANOUT / 2) and FANOUT children.
C5_RootIsInode ==
    (pc = "built" /\ kind = "tree" /\ Len(leaves) >= 2)
        => (~heap[tree].leaf /\ AssertInvariants(fanout, heap, tree))

\* C5, amended: for n >= 2 input leaves the tree from_leaves returns is a
\* single leaf exactly when n = 2, the last leaf is not big enough and the two
\* fit in one leaf; otherwise its root is an inode with between 2 and FANOUT
\* children; every other inode has between ceil(FANOUT / 2) and FANOUT
\* children.
C5_FromLeavesBranching ==
    (pc = "built" /\ kind = "tree" /\ Len(leaves) >= 2)
        => /\ AssertInvariants(fanout, heap, tree)
           /\ heap[tree].leaf <=> /\ Len(leaves) = 2
                                  /\ Len(leaves[2]) < MinBytes
                                  /\ Len(Flatten(leaves)) <= MaxBytes

\* C5, witness: the last run of a level is shorter than ceil(FANOUT / 2) and
\* the right spine is rebalanced on two levels.
C5_Witness ==
    /\ pc = "built" /\ kind = "tree"
    /\ fanout = 3 /\ Len(leaves) = 10
    /\ ~heap[tree].leaf
    /\ AssertInvariants(fanout, heap, tree)
    /\ LeafDepths(heap, tree) = {3}

\* C6: in the tree from_leaves builds and in the tree materialized from a
\* slice, every node caches the fold of the summaries of the leaves below it.
C6_SummariesCached ==
    /\ (pc = "built" /\ kind = "tree") => SummariesCached(heap, tree)
    /\ (pc = "done" /\ kind = "tree") => SummariesCached(heap, res)

\* C6, witness: a tree materialized from a slice that starts and ends inside
\* a leaf and holds line breaks.
C6_Witness ==
    /\ pc = "done" /\ kind = "tree"
    /\ slice.leaf_count >= 3
    /\ aux.invalid_first > 0 /\ aux.invalid_last > 0
    /\ ~heap[res].leaf
    /\ heap[res].summary.line_breaks >= 2
    /\ SummariesCached(heap, res)

\* C7: line_len() of a rope, however it was built, is the number of line
\* breaks of its text plus one, less one when the text ends with '\n'.
C7_LineLen ==
    /\ (pc = "built" /\ kind # "tree")
        => LineLen(heap, tree, rope_lbn)
             = LineBreaks(Content(heap, tree)) + 1
               - (IF LastByteIsNewline(Content(heap, tree)) THEN 1 ELSE 0)
    /\ (pc = "done" /\ kind # "tree")
        => LineLen(heap, res, res_lbn)
             = LineBreaks(Content(heap, res)) + 1
               - (IF LastByteIsNewline(Content(heap, res)) THEN 1 ELSE 0)

C9_WholeSharesRoot ==
    [][(pc = "sliced" /\ kind = "tree" /\ SliceIsWhole)
         => (pc' = "done" /\ res' = slice.root /\ heap' = heap)]_vars

\* C9, witness: a whole-root slice of two leaves, which the two-leaf case
\* would have rebuilt.
C9_Witness ==
    /\ pc = "done" /\ kind = "tree"
    /\ SliceIsWhole
    /\ slice.leaf_count = 2
    /\ res = slice.root
    /\ ~heap[res].leaf

\* C10: from_leaves of no item returns a single leaf holding the default
\* value; from_leaves of one item returns that leaf as the root, and no inode
\* is made.
C10_FromLeavesFewItems ==
    (pc = "built" /\ kind = "tree" /\ Len(leaves) <= 1)
        => /\ Len(heap) = 1
           /\ tree = 1
           /\ heap[tree] = LnodeFrom(IF leaves = <<>> THEN <<>> ELSE leaves[1])

\* C10, witness: the tree built from one item.
C10_Witness ==
    /\ pc = "built" /\ kind = "tree"
    /\ Len(leaves) = 1
    /\ heap[tree].leaf
    /\ heap[tree].value = leaves[1]

\* C11: ByteMetric::split at a byte offset o of a chunk with its summary
\* returns the two sides of the chunk, the left of o bytes, each with its own
\* summary, the two summaries adding up to the chunk's; at o = chunk.len() the
\* left is the chunk with its summary and the right is empty.
C11_ByteSplit ==
    op = "ByteMetric::split" =>
        /\ out.left \o out.right = chunk
        /\ Len(out.left) = arg
        /\ out.left_summary = Summarize(out.left)
        /\ out.right_summary = Summarize(out.right)
        /\ SumAdd(out.left_summary, out.right_summary) = Summarize(chunk)
        /\ arg = Len(chunk) =>
               /\ out.left = chunk
               /\ out.left_summary = Summarize(chunk)
               /\ out.right = <<>>
               /\ out.right_summary = EmptySummary

\* A chunk split in its first half, with a line break on each side.
C11_Witness ==
    /\ op = "ByteMetric::split"
    /\ arg > 0
    /\ arg < Len(chunk) \div 2
    /\ out.left_summary.line_breaks > 0
    /\ out.right_summary.line_breaks > 0

\* The split asked of RawLineMetric::split sits at the chunk's total
\* line-break count.
SplitAtTotal == op = "RawLineMetric::split" /\ arg = Summarize(chunk).line_breaks

HasLineBreak(c) == \E i \in 1..Len(c) : c[i] = NL

\* The line unit is the raw unit without its trailing line break, the advance
\* is the raw unit's summary.
StripsRaw(unit, summary, advance, raw, raw_summary) ==
    /\ HasTrailingNewline(raw)
    /\ unit = Sub(raw, 0, Len(raw) - 1)
    /\ summary = [bytes |-> raw_summary.bytes - 1, line_breaks |-> 0]
    /\ advance = raw_summary

\* What LineMetric::first_unit returned against what RawLineMetric::first_unit
\* returns for the same chunk.
FirstUnitStripsRaw(raw) ==
    /\ StripsRaw(out.first, out.first_summary, out.advance, raw.first, raw.first_summary)
    /\ out.rest = raw.rest
    /\ out.rest_summary = raw.rest_summary

\* What LineMetric::last_unit returned against what RawLineMetric::last_unit
\* returns for the same chunk.
LastUnitStripsRaw(raw) ==
    /\ IF HasLineBreak(raw.last)
       THEN StripsRaw(out.last, out.last_summary, out.advance, raw.last, raw.last_summary)
       ELSE /\ out.last = raw.last
            /\ out.last_summary = raw.last_summary
            /\ out.advance = raw.last_summary
    /\ out.rest = raw.rest
    /\ out.rest_summary = raw.rest_summary

RECURSIVE SumAdvances(_)
SumAdvances(units) ==
    IF units = <<>> THEN EmptySummary
    ELSE SumAdd(Head(units).advance, SumAdvances(Tail(units)))

LevelLoop ==
    BuildLevels(fanout,
                AllocAll(Machine(<<>>, {}), [i \in 1..Len(leaves) |-> LnodeFrom(leaves[i])])).m.heap

\* The tree was built by Tree::from_leaves from two leaves or more.
LevelsBuilt == pc = "built" /\ kind = "tree" /\ Len(leaves) >= 2

\* The number of inodes between a node and the leaves under it.
RECURSIVE HeightIn(_, _)
HeightIn(h, id) == IF h[id].leaf THEN 0 ELSE 1 + HeightIn(h, h[id].children[1])

\* The node is a child of an inode.
HasParentIn(h, id) ==
    \E p \in 1..Len(h) : ~h[p].leaf /\ \E i \in 1..Len(h[p].children) : h[p].children[i] = id

\* The node closes its level: the node made right after it, if any, is the
\* first of the level above.
ClosesLevel(h, id) == id < Len(h) => HeightIn(h, id + 1) = HeightIn(h, id) + 1

\* C16 as stated: every run the level loop of Tree::from_leaves turns into an
\* inode has two nodes or more, so that no inode with one child is made at any
\* level.
C16_RunsOfTwoOrMore ==
    LevelsBuilt =>
        \A id \in 1..Len(LevelLoop) :
            ~LevelLoop[id].leaf => Len(LevelLoop[id].children) >= 2

\* The runs of the level loop: each is of FANOUT nodes or is the last of its
\* level, of 1 to FANOUT nodes; the nodes left without a parent are those of
\* the top level, FANOUT at most.
RunsOf(h, F) ==
    /\ \A id \in 1..Len(h) :
           ~h[id].leaf =>
               /\ Len(h[id].children) \in 1..F
               /\ Len(h[id].children) < F =>
                      ClosesLevel(h, h[id].children[Len(h[id].children)])
    /\ \A id \in 1..Len(h) : HasParentIn(h, id) \/ HeightIn(h, id) = HeightIn(h, Len(h))
    /\ Cardinality({id \in 1..Len(h) : ~HasParentIn(h, id)}) \in 2..F

\* C16 amended: the level loop of Tree::from_leaves takes the nodes of a level
\* FANOUT at a time, with no donation: every run is of FANOUT nodes but the
\* last of a level, which is of 1 to FANOUT nodes, so that an inode with one
\* child is made when one node is left over; in the tree that from_leaves
\* returns, after balance_right_side, no inode under the root has fewer than
\* the minimum of children.
C16_Runs ==
    LevelsBuilt =>
        /\ RunsOf(LevelLoop, fanout)
        /\ \A id \in Reach(heap, tree) \ {tree} :
               ~heap[id].leaf => Len(heap[id].children) >= MinChildren(fanout)

\* A level loop that made an inode with one child, at a level that is not
\* the first.
C16_Witness ==
    /\ LevelsBuilt
    /\ \E id \in 1..Len(LevelLoop) :
           /\ ~LevelLoop[id].leaf
           /\ Len(LevelLoop[id].children) = 1
           /\ HeightIn(LevelLoop, id) = 2
    /\ MinChildren(fanout) >= 2

\* The root that Tree::from_leaves hands to pull_up_root, for the leaves the
\* tree was built from: the root inode after balance_right_side, enclosed in
\* its Arc.
RootBeforePullUp(bal) == TreeOf(Alloc(bal.m, bal.inode), NextId(bal.m))

BalancedRoot(top) ==
    RootBeforePullUp(BalanceRightSide(fanout, top.m, InodeFromChildren(top.m.heap, top.ids)))

BeforePullUp ==
    BalancedRoot(BuildLevels(fanout,
                             AllocAll(Machine(<<>>, {}),
                                      [i \in 1..Len(leaves) |-> LnodeFrom(leaves[i])])))

\* The node at the bottom of the chain of single-child inodes a node heads,
\* and the length of the chain.
RECURSIVE ChainBottom(_, _)
ChainBottom(h, id) ==
    IF ~h[id].leaf /\ Len(h[id].children) = 1 THEN ChainBottom(h, h[id].children[1]) ELSE id

RECURSIVE ChainLen(_, _)
ChainLen(h, id) ==
    IF ~h[id].leaf /\ Len(h[id].children) = 1 THEN 1 + ChainLen(h, h[id].children[1]) ELSE 0

\* The root that into_tree_root hands to pull_up_root after
\* balance_left_side, for the slice of the state.
LeftBalanced(root, bal) == TreeOf(Store(bal.m, root, bal.inode), root)

LeftBalancedOf(t) == LeftBalanced(t.root, BalanceLeftSide(fanout, t.m, t.m.heap[t.root]))

LeftBalancedCut(cut) == LeftBalancedOf(NewTree(cut.m, cut.root))

BeforePullUpLeft ==
    LeftBalancedCut(CutTreeSlice(fanout, Machine(heap, Reach(heap, tree)), slice))

\* What pull_up_root made of a root and the nodes under it: the heap h and
\* the root.
PulledUp(before, h, root) ==
    /\ root = ChainBottom(before.m.heap, before.root)
    /\ h[root].leaf \/ Len(h[root].children) >= 2
    /\ Content(h, root) = Content(before.m.heap, before.root)
    /\ ChainLen(before.m.heap, before.root) = 0 =>
           /\ root = before.root
           /\ h = before.m.heap

\* pull_up_root applied to a root.
PulledUpBy(before, after) ==
    /\ ~after.m.panic
    /\ PulledUp(before, after.m.heap, after.root)

\* into_tree_root ran on a slice whose first child held invalid nodes, so
\* that pull_up_root was called after balance_left_side.
LeftPulledUp == Finished /\ slice.leaf_count >= 3 /\ aux.invalid_first > 0

\* C17: pull_up_root, given a uniquely owned root, ends with the node at the
\* bottom of the chain of single-child inodes the root heads as the root: a
\* leaf or an inode with two children or more, over the same leaves; a root
\* that is a leaf or has two children or more is left as it is.  Checked of
\* the call in Tree::from_leaves and of the call after balance_left_side in
\* into_tree_root.
C17_PullUpRoot ==
    /\ LevelsBuilt => PulledUp(BeforePullUp, heap, tree)
    /\ LeftPulledUp =>
           PulledUpBy(BeforePullUpLeft,
                      PullUpRoot(BeforePullUpLeft.m, BeforePullUpLeft.root))

\* A root that headed a chain of two single-child inodes when pull_up_root
\* was called on it.
C17_Witness ==
    /\ LeftPulledUp
    /\ ChainLen(BeforePullUpLeft.m.heap, BeforePullUpLeft.root) >= 2

\* The handles from a node down to its first leaf, and down to its last.
RECURSIVE FirstSpine(_, _)
FirstSpine(h, id) ==
    IF h[id].leaf THEN {id} ELSE {id} \cup FirstSpine(h, h[id].children[1])

RECURSIVE LastSpine(_, _)
LastSpine(h, id) ==
    IF h[id].leaf THEN {id}
    ELSE {id} \cup LastSpine(h, h[id].children[Len(h[id].children)])

\* The handles of the source tree: those with a strong count above 1 once
\* they are Arc::clone'd into another tree.
Shared == Reach(heap, tree)

\* What cut_tree_slice returns for the slice of the state.
Cut == CutTreeSlice(fanout, Machine(heap, Shared), slice)

\* The slice spans three leaves or more and not the whole of its root: it was
\* handed to into_tree_root, which called cut_tree_slice.
CutDone == Finished /\ slice.leaf_count >= 3 /\ ~SliceIsWhole

\* The two spines of a cut root are owned by it alone.
SpinesUnique(cut) ==
    /\ FirstSpine(cut.m.heap, cut.root.children[1]) \cap Shared = {}
    /\ LastSpine(cut.m.heap, cut.root.children[Len(cut.root.children)]) \cap Shared = {}

\* C18: in the inode cut_tree_slice returns for a slice of three leaves or
\* more, the first child, the last child and their first and last descendants
\* down to the leaf have a strong count of 1, also when the slice starts where
\* its root starts or ends where its root ends.
C18_SpinesUnique == CutDone => SpinesUnique(Cut)

\* The number of invalid nodes in the subtree of a node: leaves that are not
\* big enough and inodes without enough children.
InvalidIn(F, h, id) == Cardinality({n \in Reach(h, id) : ~IsValid(F, h[n])})

\* The depth of a cut root: the inodes from it down to its leaves.
DepthOfCut(cut) == 1 + HeightIn(cut.m.heap, cut.root.children[1])

\* The counts cut_tree_slice returned against the nodes it returned.
CountsAccurate(F, cut) ==
    /\ cut.invalid_first = InvalidIn(F, cut.m.heap, cut.root.children[1])
    /\ cut.invalid_last = InvalidIn(F, cut.m.heap, cut.root.children[Len(cut.root.children)])

CountsInRange(cut) ==
    /\ ~cut.m.panic
    /\ cut.invalid_first \in 0..DepthOfCut(cut)
    /\ cut.invalid_last \in 0..DepthOfCut(cut)

\* C19: the counts InvalidFirst and InvalidLast that cut_tree_slice returns
\* for a slice of three leaves or more are the numbers of invalid nodes in the
\* subtrees of the first and of the last child of the returned root; no count
\* goes below zero, and none is above the depth of the root.
C19_InvalidCounts ==
    CutDone =>
        /\ CountsAccurate(fanout, Cut)
        /\ CountsInRange(Cut)

====
